---- MODULE Spec2Model ----
(***************************************************************************)
(* Model of the PDF summarizer: the chunker (summarizer.py, chunk_text)    *)
(* and the pipeline orchestrator (streamlit_app.py,                        *)
(* summarize_uploaded_pdf) with its session cache, temporary file and the  *)
(* calls it makes to the extractor and to the summarization service.       *)
(*                                                                         *)
(* Texts are sequences of one-character strings.  Python indices are       *)
(* 0-based: the slice text[a:b] is SubSeq(text, a + 1, b).                 *)
(***************************************************************************)
EXTENDS Integers, Sequences, FiniteSets, TLC

VARIABLES
    pc,             \* position of the script / of summarize_uploaded_pdf
    summary_cache,  \* st.session_state.summary_cache: fingerprint -> summary
    file_bytes,     \* the uploaded file of the current run (0: none)
    max_chars,      \* the sidebar's chunk size, as read by the current run
    fh,             \* fingerprint of file_bytes
    tmp_exists,     \* the temporary copy is on disk
    text,           \* extracted text, the argument of chunk_text
    ntext,          \* chunk_text's local text after line 32
    n,              \* chunk_text's n
    i,              \* chunk_text's cursor
    chunks,         \* chunk_text's result list
    summaries,      \* the orchestrator's list of chunk summaries
    outcome,        \* what the run returned or raised
    slices,         \* history: the (i, end) pairs chunk_text cut
    calls,          \* history: the service calls of the current run
    agg_args,       \* history: the arguments aggregate_summaries was called with
    extracted,      \* history: the extractor was invoked in the current run
    tmp_made,       \* history: the current run created a temporary copy
    first_final     \* history: file -> summary returned by its first successful run

vars == <<pc, summary_cache, file_bytes, max_chars, fh, tmp_exists, text,
          ntext, n, i, chunks, summaries, outcome, slices, calls, agg_args,
          extracted, tmp_made, first_final>>

chunkVars == <<ntext, n, i, chunks, slices>>

pipeVars == <<summary_cache, file_bytes, fh, tmp_exists, summaries, outcome,
              calls, agg_args, extracted, tmp_made, first_final>>

----------------------------------------------------------------------------
(* Bounds and input sets *)

MaxLen == 6

MaxChars == 5

Alphabet == {"a", " ", "\n", ".", "\r"}

Whitespace == {" ", "\n", "\r"}

Delimiters == {"\n", "."}

Texts == UNION {[1..len -> Alphabet] : len \in 0..MaxLen}

ChunkSizes == 1..MaxChars

\* uploaded files: 1 a two-page document, 2 a scanned document (no text
\* layer), 3 a file the extractor cannot open, 4 a one-page document
Files == 1..4

Readable == {1, 2, 4}

PagesOf(b) ==
    CASE b = 1 -> << <<"a", ".">>, <<"b">> >>
      [] b = 2 -> << <<" ">>, <<>> >>
      [] OTHER -> << <<"a", "b">> >>

\* what the service may answer, and why it may fail
Responses == { <<"s">>, <<" ", "t", "\n">> }

Causes == {"quota", "network"}

----------------------------------------------------------------------------
(* Python helpers *)

Min(a, b) == IF a <= b THEN a ELSE b

Max(a, b) == IF a >= b THEN a ELSE b

RECURSIVE LStrip(_)
LStrip(s) ==
    IF s # <<>> /\ s[1] \in Whitespace THEN LStrip(Tail(s)) ELSE s

RECURSIVE RStrip(_)
RStrip(s) ==
    IF s # <<>> /\ s[Len(s)] \in Whitespace
    THEN RStrip(SubSeq(s, 1, Len(s) - 1)) ELSE s

\* a trim that also eats a trailing sentence delimiter
StripDelims(s) ==
    LET t == RStrip(LStrip(s))
    IN IF t # <<>> /\ t[Len(t)] = "."
       THEN RStrip(SubSeq(t, 1, Len(t) - 1)) ELSE t

\* str.strip()
Strip(s) == RStrip(LStrip(s))

\* str.replace("\r\n", "\n"): left to right, non-overlapping
RECURSIVE ReplaceCRLF(_)
ReplaceCRLF(s) ==
    IF Len(s) < 2 THEN s
    ELSE IF s[1] = "\r" /\ s[2] = "\n"
         THEN <<"\n">> \o ReplaceCRLF(SubSeq(s, 3, Len(s)))
         ELSE <<s[1]>> \o ReplaceCRLF(Tail(s))

\* str.rfind(c): highest 0-based index of c, or -1
RECURSIVE rfind(_, _)
rfind(s, c) ==
    IF s = <<>> THEN -1
    ELSE IF s[Len(s)] = c THEN Len(s) - 1
         ELSE rfind(SubSeq(s, 1, Len(s) - 1), c)

\* sep.join(parts)
RECURSIVE Join(_, _)
Join(parts, sep) ==
    IF parts = <<>> THEN <<>>
    ELSE IF Len(parts) = 1 THEN parts[1]
         ELSE parts[1] \o sep \o Join(Tail(parts), sep)

----------------------------------------------------------------------------
(* summarizer.py *)

file_hash_bytes(b) == 100 + b

extract_text_from_pdf(b) == Strip(Join(PagesOf(b), <<"\n", "\n">>))

\* line 32
Normalize(t) == Strip(ReplaceCRLF(t))

\* line 41
WindowEnd(cur, mc, len) == Min(cur + mc, len)

\* a window that runs to the end of the text
CandidateToEnd(t, cur, e) == SubSeq(t, cur + 1, Len(t))

\* line 42
Candidate(t, cur, e) == SubSeq(t, cur + 1, e)

\* line 44
SplitPos(candidate) == Max(rfind(candidate, "\n"), rfind(candidate, "."))

\* the split point is taken from the half-way index on (>= for >)
CutEndFromHalf(t, cur, mc) ==
    LET e == WindowEnd(cur, mc, Len(t))
        split_pos == SplitPos(Candidate(t, cur, e))
    IN IF split_pos >= mc \div 2 THEN cur + split_pos + 1 ELSE e

\* lines 46-47
CutEnd(t, cur, mc) ==
    LET e == WindowEnd(cur, mc, Len(t))
        split_pos == SplitPos(Candidate(t, cur, e))
    IN IF split_pos > mc \div 2 THEN cur + split_pos + 1 ELSE e

----------------------------------------------------------------------------
(* streamlit_app.py *)

NoOutcome == [kind |-> "none", value |-> <<>>, index |-> 0, cause |-> "none"]

Returned(v) == [kind |-> "summary", value |-> v, index |-> 0, cause |-> "none"]

Raised(k, idx, c) == [kind |-> k, value |-> <<>>, index |-> idx, cause |-> c]

\* the lookup always misses
CacheMiss(cache, key) == FALSE

\* line 48
CacheHit(cache, key) == key \in DOMAIN cache

\* the emptiness test is missing
NeverEmpty(t) == FALSE

\* line 59
IsEmptyText(t) == t = <<>> \/ Strip(t) = <<>>

\* enumerate without start=1
MapErrorFromZero(idx, c) == Raised("map", idx - 1, c)

\* lines 74-75
MapError(idx, c) == Raised("map", idx, c)

\* the newest summary first
PrependSummary(ss, s) == <<Strip(s)>> \o ss

\* line 76
AppendSummary(ss, s) == Append(ss, Strip(s))

\* the copy is removed only when nothing was raised
RemoveOnSuccessOnly(raised) == raised

\* lines 90-95: whether the copy is still on disk after the finally block
TmpAfterFinally(raised) == FALSE

CallOk(stage, idx, r) ==
    [stage |-> stage, index |-> idx, ok |-> TRUE, response |-> r, cause |-> "none"]

CallFailed(stage, idx, c) ==
    [stage |-> stage, index |-> idx, ok |-> FALSE, response |-> <<>>, cause |-> c]

----------------------------------------------------------------------------
(* State after the script's first lines: an empty session cache, no upload *)

Idle ==
    /\ file_bytes = 0
    /\ fh = 0
    /\ ntext = <<>>
    /\ n = 0
    /\ i = 0
    /\ chunks = <<>>
    /\ summaries = <<>>
    /\ slices = <<>>
    /\ calls = <<>>
    /\ agg_args = <<>>
    /\ extracted = FALSE
    /\ tmp_made = FALSE
    /\ tmp_exists = FALSE
    /\ outcome = NoOutcome
    /\ summary_cache = <<>>
    /\ first_final = <<>>

Init ==
    /\ pc = "idle"
    /\ text = <<>>
    /\ max_chars = 1
    /\ Idle

\* chunk_text called on any text with any positive max_chars
InitChunk ==
    /\ pc = "chunk"
    /\ text \in Texts
    /\ max_chars \in ChunkSizes
    /\ Idle

----------------------------------------------------------------------------
(* chunk_text *)

\* lines 32-39
ChunkEnter ==
    /\ pc = "chunk"
    /\ ntext' = Normalize(text)
    /\ n' = Len(ntext')
    /\ i' = 0
    /\ IF n' <= max_chars
       THEN /\ chunks' = <<ntext'>>
            /\ slices' = << <<0, n'>> >>
            /\ pc' = "map"
       ELSE /\ chunks' = <<>>
            /\ slices' = <<>>
            /\ pc' = "loop"
    /\ UNCHANGED <<text, max_chars, pipeVars>>

\* lines 40-50, one iteration
ChunkIterate ==
    /\ pc = "loop"
    /\ i < n
    /\ LET e == CutEnd(ntext, i, max_chars)
       IN /\ chunks' = Append(chunks, Strip(SubSeq(ntext, i + 1, e)))
          /\ slices' = Append(slices, <<i, e>>)
          /\ i' = e
    /\ UNCHANGED <<pc, ntext, n, text, max_chars, pipeVars>>

\* line 40 (loop exit) and line 52
ChunkReturn ==
    /\ pc = "loop"
    /\ ~(i < n)
    /\ pc' = "map"
    /\ UNCHANGED <<chunkVars, text, max_chars, pipeVars>>

----------------------------------------------------------------------------
(* summarize_uploaded_pdf and the script around it *)

\* lines 103-113 and 47-54: a run starts on an uploaded file
Start(b, mc) ==
    /\ pc = "idle"
    /\ file_bytes' = b
    /\ max_chars' = mc
    /\ fh' = file_hash_bytes(b)
    /\ IF CacheHit(summary_cache, fh')
       THEN /\ outcome' = Returned(summary_cache[fh'])
            /\ pc' = "done"
            /\ UNCHANGED <<tmp_exists, tmp_made>>
       ELSE /\ tmp_exists' = TRUE
            /\ tmp_made' = TRUE
            /\ pc' = "extract"
            /\ UNCHANGED outcome
    /\ UNCHANGED <<summary_cache, text, chunkVars, summaries, calls, agg_args,
                   extracted, first_final>>

\* lines 58-60, and 90-95 when something is raised
Extract ==
    /\ pc = "extract"
    /\ extracted' = TRUE
    /\ IF file_bytes \notin Readable
       THEN /\ outcome' = Raised("extract-error", 0, "open")
            /\ tmp_exists' = TmpAfterFinally(TRUE)
            /\ pc' = "done"
            /\ UNCHANGED text
       ELSE /\ text' = extract_text_from_pdf(file_bytes)
            /\ IF IsEmptyText(text')
               THEN /\ outcome' = Raised("extraction-empty", 0, "none")
                    /\ tmp_exists' = TmpAfterFinally(TRUE)
                    /\ pc' = "done"
               ELSE /\ pc' = "chunk"
                    /\ UNCHANGED <<outcome, tmp_exists>>
    /\ UNCHANGED <<summary_cache, file_bytes, max_chars, fh, chunkVars,
                   summaries, calls, agg_args, tmp_made, first_final>>

\* lines 69-79 and summarizer.py 55-68: the service call for the next chunk
MapCall ==
    /\ pc = "map"
    /\ Len(summaries) < Len(chunks)
    /\ LET idx == Len(summaries) + 1
       IN \/ \E r \in Responses :
               /\ summaries' = AppendSummary(summaries, r)
               /\ calls' = Append(calls, CallOk("map", idx, r))
               /\ UNCHANGED <<pc, outcome, tmp_exists>>
          \/ \E c \in Causes :
               /\ calls' = Append(calls, CallFailed("map", idx, c))
               /\ outcome' = MapError(idx, c)
               /\ tmp_exists' = TmpAfterFinally(TRUE)
               /\ pc' = "done"
               /\ UNCHANGED summaries
    /\ UNCHANGED <<summary_cache, file_bytes, max_chars, fh, text, chunkVars,
                   agg_args, extracted, tmp_made, first_final>>

\* a single chunk summary is returned as the final summary, without a call
ReduceSkipSingle ==
    /\ pc = "map"
    /\ Len(summaries) = Len(chunks)
    /\ IF Len(summaries) = 1
       THEN /\ summary_cache' = (fh :> summaries[1]) @@ summary_cache
            /\ outcome' = Returned(summaries[1])
            /\ UNCHANGED <<calls, agg_args>>
       ELSE \E r \in Responses :
               /\ agg_args' = Append(agg_args, summaries)
               /\ calls' = Append(calls, CallOk("reduce", 0, r))
               /\ summary_cache' = (fh :> r) @@ summary_cache
               /\ outcome' = Returned(r)
    /\ tmp_exists' = TmpAfterFinally(FALSE)
    /\ pc' = "done"
    /\ UNCHANGED <<file_bytes, max_chars, fh, text, chunkVars, summaries,
                   extracted, tmp_made, first_final>>

\* lines 81-95 and summarizer.py 71-86: the aggregation call
Reduce ==
    /\ pc = "map"
    /\ Len(summaries) = Len(chunks)
    /\ agg_args' = Append(agg_args, summaries)
    /\ \/ \E r \in Responses :
            /\ calls' = Append(calls, CallOk("reduce", 0, r))
            /\ summary_cache' = (fh :> r) @@ summary_cache
            /\ outcome' = Returned(r)
            /\ tmp_exists' = TmpAfterFinally(FALSE)
       \/ \E c \in Causes :
            /\ calls' = Append(calls, CallFailed("reduce", 0, c))
            /\ outcome' = Raised("reduce", 0, c)
            /\ tmp_exists' = TmpAfterFinally(TRUE)
            /\ UNCHANGED summary_cache
    /\ pc' = "done"
    /\ UNCHANGED <<file_bytes, max_chars, fh, text, chunkVars, summaries,
                   extracted, tmp_made, first_final>>

\* lines 115-133: the result or the error is shown and the script run ends
Finish ==
    /\ pc = "done"
    /\ pc' = "idle"
    /\ first_final' =
         IF outcome.kind = "summary" /\ file_bytes \notin DOMAIN first_final
         THEN (file_bytes :> outcome.value) @@ first_final
         ELSE first_final
    /\ file_bytes' = 0
    /\ fh' = 0
    /\ text' = <<>>
    /\ ntext' = <<>>
    /\ n' = 0
    /\ i' = 0
    /\ chunks' = <<>>
    /\ summaries' = <<>>
    /\ slices' = <<>>
    /\ calls' = <<>>
    /\ agg_args' = <<>>
    /\ extracted' = FALSE
    /\ tmp_made' = FALSE
    /\ outcome' = NoOutcome
    /\ UNCHANGED <<summary_cache, max_chars, tmp_exists>>

----------------------------------------------------------------------------

NextChunk ==
    \/ ChunkEnter
    \/ ChunkIterate
    \/ ChunkReturn

Next ==
    \/ \E b \in Files, mc \in ChunkSizes : Start(b, mc)
    \/ Extract
    \/ ChunkEnter
    \/ ChunkIterate
    \/ ChunkReturn
    \/ MapCall
    \/ Reduce
    \/ Finish

Spec == Init /\ [][Next]_vars

SpecChunk == InitChunk /\ [][NextChunk]_vars

----------------------------------------------------------------------------
(* Properties of chunk_text, checked under SpecChunk *)

SliceLen(k) == slices[k][2] - slices[k][1]

Trimmed(t) == t = <<>> \/ (t[1] \notin Whitespace /\ t[Len(t)] \notin Whitespace)

HasCRLF(t) == \E k \in 1..(Len(t) - 1) : t[k] = "\r" /\ t[k + 1] = "\n"

\* C1: every chunk chunk_text produces is at most max_chars long, both as
\* cut (text[i:end]) and after the trim; a text that is no longer than
\* max_chars is returned whole, as the only chunk.
C1_ChunkSizeBound ==
    /\ Len(slices) = Len(chunks)
    /\ \A k \in 1..Len(chunks) :
         /\ SliceLen(k) <= max_chars
         /\ Len(chunks[k]) <= max_chars
    /\ (pc = "map" /\ Len(ntext) <= max_chars) => chunks = <<ntext>>

C1_Witness ==
    /\ pc = "map"
    /\ Len(chunks) >= 2
    /\ \E k \in 1..Len(chunks) : SliceLen(k) = max_chars
    /\ \E k \in 1..Len(chunks) : Len(chunks[k]) < SliceLen(k)

\* C2: the slices text[i:end] tile the normalized text from index 0 to its
\* end without gap or overlap, and every returned chunk is its slice with
\* only whitespace characters removed from the two ends, so that the chunks,
\* with that whitespace put back, concatenate to the normalized text.
C2_Reconstruction ==
    /\ Trimmed(ntext)
    /\ Len(slices) = Len(chunks)
    /\ slices # <<>> => slices[1][1] = 0
    /\ \A k \in 1..Len(slices) : slices[k][1] <= slices[k][2] /\ slices[k][2] <= Len(ntext)
    /\ \A k \in 1..(Len(slices) - 1) : slices[k + 1][1] = slices[k][2]
    /\ pc = "map" => slices # <<>> /\ slices[Len(slices)][2] = Len(ntext)
    /\ \A k \in 1..Len(slices) :
         \E lead \in 0..SliceLen(k) : \E trail \in 0..(SliceLen(k) - lead) :
            /\ chunks[k] = SubSeq(ntext, slices[k][1] + lead + 1, slices[k][2] - trail)
            /\ \A j \in (slices[k][1] + 1)..(slices[k][1] + lead) : ntext[j] \in Whitespace
            /\ \A j \in (slices[k][2] - trail + 1)..slices[k][2] : ntext[j] \in Whitespace

C2_Witness ==
    /\ pc = "map"
    /\ Len(chunks) >= 3
    /\ HasCRLF(text)
    /\ \E k \in 1..Len(chunks) : chunks[k] # <<>> /\ Len(chunks[k]) < SliceLen(k)

\* C3: for a non-empty, already trimmed (and CRLF-free) input text, no chunk
\* chunk_text produces is the empty string.
C3_NoEmptyChunk ==
    (text # <<>> /\ Trimmed(text) /\ ~HasCRLF(text))
        => \A k \in 1..Len(chunks) : chunks[k] # <<>>

\* C10: in the multi-chunk case every slice starts at the cursor and ends
\* where the boundary policy says: with split_pos the last newline or period
\* inside the window [i, min(i + max_chars, n)) only, at i + split_pos + 1
\* when split_pos is greater than half of max_chars and at the window end
\* otherwise; the cursor strictly advances, never passes n, and the loop is
\* left exactly when the cursor equals n.
C10_BoundaryPolicy ==
    (pc \in {"loop", "map"} /\ Len(ntext) > max_chars) =>
        /\ n = Len(ntext)
        /\ i <= n
        /\ i = (IF slices = <<>> THEN 0 ELSE slices[Len(slices)][2])
        /\ pc = "map" => i = n
        /\ \A k \in 1..Len(slices) :
             LET start == slices[k][1]
                 window == IF start + max_chars < n THEN start + max_chars ELSE n
                 found == {j \in start..(window - 1) : ntext[j + 1] \in Delimiters}
                 split == IF found = {} THEN -1
                          ELSE (CHOOSE j \in found : \A h \in found : h <= j) - start
             IN /\ slices[k][2] = (IF 2 * split > max_chars THEN start + split + 1 ELSE window)
                /\ slices[k][2] > start

C10_Witness ==
    /\ pc = "map"
    /\ Len(ntext) > max_chars
    /\ \E k \in 1..Len(slices) :
         /\ slices[k][2] < slices[k][1] + max_chars
         /\ slices[k][1] + max_chars < n
         /\ ntext[slices[k][2]] \in Delimiters
         /\ \E j \in (slices[k][1] + max_chars + 1)..n : ntext[j] \in Delimiters

----------------------------------------------------------------------------
(* Properties of the pipeline, checked under Spec *)

MapCalls == {k \in 1..Len(calls) : calls[k].stage = "map"}

ReduceCalls == {k \in 1..Len(calls) : calls[k].stage = "reduce"}

C5_CacheShortCircuit ==
    /\ pc \in {"extract", "chunk", "loop", "map"} => file_bytes \notin DOMAIN first_final
    /\ pc = "done" =>
         IF file_bytes \in DOMAIN first_final
         THEN /\ outcome = Returned(first_final[file_bytes])
              /\ calls = <<>>
              /\ agg_args = <<>>
              /\ ~extracted
              /\ ~tmp_made
         ELSE extracted /\ tmp_made
    /\ (pc = "done" /\ outcome.kind # "summary") => fh \notin DOMAIN summary_cache
    /\ \A b \in Files :
         file_hash_bytes(b) \in DOMAIN summary_cache =>
            \/ b \in DOMAIN first_final
            \/ (b = file_bytes /\ pc = "done" /\ outcome.kind = "summary")

C5_Witness ==
    /\ pc = "done"
    /\ file_bytes \in DOMAIN first_final
    /\ outcome.kind = "summary"
    /\ Len(outcome.value) > 1

\* C6: when the extracted text is empty or whitespace only, the run has
\* ended with the extraction-empty error, chunk_text has not run, no service
\* call was made and the file has no cache entry.
C6_EmptyExtractionFailsFirst ==
    /\ (extracted /\ file_bytes \in Readable /\ \A k \in 1..Len(text) : text[k] \in Whitespace) =>
         /\ pc = "done"
         /\ outcome.kind = "extraction-empty"
         /\ chunks = <<>>
         /\ slices = <<>>
         /\ calls = <<>>
         /\ agg_args = <<>>
         /\ fh \notin DOMAIN summary_cache
    /\ outcome.kind = "extraction-empty" => \A k \in 1..Len(text) : text[k] \in Whitespace

C6_Witness ==
    /\ pc = "done"
    /\ outcome.kind = "extraction-empty"
    /\ extracted
    /\ file_bytes = 2

\* C7: aggregate_summaries is called with exactly one summary per chunk, the
\* k-th being the trimmed response of the k-th map call, and a reduce call
\* comes only after N successful map calls, one per chunk, in chunk order.
C7_OrderPreserved ==
    /\ \A a \in 1..Len(agg_args) :
         /\ Len(agg_args[a]) = Len(chunks)
         /\ Len(calls) >= Len(chunks)
         /\ \A k \in 1..Len(chunks) :
              /\ calls[k].stage = "map"
              /\ calls[k].ok
              /\ calls[k].index = k
              /\ agg_args[a][k] = Strip(calls[k].response)
    /\ \A k \in ReduceCalls :
         /\ k = Len(chunks) + 1
         /\ agg_args # <<>>
         /\ \A j \in 1..(k - 1) : calls[j].stage = "map" /\ calls[j].ok

C7_Witness ==
    /\ agg_args # <<>>
    /\ Len(chunks) >= 3
    /\ agg_args[1][1] # agg_args[1][2]
    /\ agg_args[1][2] # calls[2].response

\* C8: in every run in which the N >= 1 map calls all succeeded,
\* aggregate_summaries was called once and made exactly one service call, and
\* a returned final summary is that call's response; this includes N = 1.
C8_ReduceNeverSkipped ==
    (/\ pc = "done"
     /\ chunks # <<>>
     /\ Cardinality({k \in MapCalls : calls[k].ok}) = Len(chunks)) =>
        /\ Len(agg_args) = 1
        /\ Cardinality(ReduceCalls) = 1
        /\ calls[Len(calls)].stage = "reduce"
        /\ IF calls[Len(calls)].ok
           THEN outcome = Returned(calls[Len(calls)].response)
           ELSE outcome.kind = "reduce"

C8_Witness ==
    /\ pc = "done"
    /\ Len(chunks) = 1
    /\ outcome.kind = "summary"
    /\ outcome.value # summaries[1]
    /\ Len(agg_args) = 1

====
